---- MODULE Spec2Model ----
(***************************************************************************)
(* Model of universal_silabs_flasher:                                      *)
(*   - xmodemcrc.py : the XMODEM-128/CRC sender (send_xmodem128_crc and    *)
(*     send_xmodem128_crc_data) running over an asyncio transport whose    *)
(*     protocol is swapped for the duration of the call;                   *)
(*   - common.py    : crc16_ccitt and the asyncio StateMachine.            *)
(***************************************************************************)
EXTENDS Integers, Sequences, FiniteSets, TLC

(***************************************************************************)
(* Bounds of the model.                                                    *)
(***************************************************************************)
MaxBlocks == 2          \* data of 0..MaxBlocks blocks
MaxFailures == 1        \* max_failures ranges over 0..MaxFailures
MaxBuffered == 2        \* unread bytes the receiver may have queued
NumTasks == 2           \* tasks calling wait_for_state
MaxSetCalls == 3        \* calls of the state setter
LongBlocks == 257       \* blocks of the long transfer

(***************************************************************************)
(* Program constants.                                                      *)
(***************************************************************************)
BLOCK_SIZE == 128
SOH == 1
EOT == 4
CAN == 24
ACK == 6
NAK == 21
HandshakeByte == 67     \* b"C"

Calls == {1, 2}         \* invocations of send_xmodem128_crc on one transport

(***************************************************************************)
(* crc16_ccitt: CRC-16, polynomial 0x1021, init 0, no reflection, no final *)
(* xor.  The register update per input byte is done with the usual byte    *)
(* table; the table itself is computed bit by bit.                         *)
(***************************************************************************)
RECURSIVE XorBits(_, _, _)
XorBits(a, b, n) ==
    IF n = 0 THEN 0
    ELSE (((a % 2) + (b % 2)) % 2) + 2 * XorBits(a \div 2, b \div 2, n - 1)

Xor8Table == [a \in 0..255 |-> [b \in 0..255 |-> XorBits(a, b, 8)]]

Xor16(a, b) ==
    Xor8Table[a \div 256][b \div 256] * 256 + Xor8Table[a % 256][b % 256]

RECURSIVE ShiftBits(_, _)
ShiftBits(reg, k) ==
    IF k = 0 THEN reg
    ELSE ShiftBits(IF reg >= 32768 THEN XorBits((reg * 2) % 65536, 4129, 16)
                                   ELSE (reg * 2) % 65536,
                   k - 1)

CrcTable == [b \in 0..255 |-> ShiftBits(b * 256, 8)]

CrcByte(reg, byte) ==
    Xor16((reg % 256) * 256, CrcTable[Xor8Table[reg \div 256][byte]])

RECURSIVE CrcRange(_, _, _, _)
CrcRange(bytes, lo, hi, reg) ==
    IF lo > hi THEN reg
    ELSE IF lo = hi THEN CrcByte(reg, bytes[lo])
    ELSE CHOOSE r \in UNION {{CrcRange(bytes, mid + 1, hi, left) :
                                 left \in {CrcRange(bytes, lo, mid, reg)}} :
                             mid \in {(lo + hi) \div 2}} : TRUE

crc16_ccitt(bytes) ==
    CHOOSE r \in {CrcRange(b, 1, Len(b), 0) : b \in {bytes}} : TRUE

(***************************************************************************)
(* Xmodem128CRCPacket                                                      *)
(***************************************************************************)
ToBytesBig2(v) == <<(v \div 256) % 256, v % 256>>

serialize(number, payload) ==
    <<SOH, number, 255 - number>> \o payload \o ToBytesBig2(crc16_ccitt(payload))

PacketNumberUnwrapped(idx) == idx + 1

\* number=(index + 1) & 0xFF
PacketNumber(idx) == (idx + 1) % 256

\* The data argument is named by its length and the byte it starts with:
\* byte k (from 1) of [len |-> n, fill |-> f] is (f + k - 1) mod 256.
DataLen(d) == d.len
DataByte(d, k) == (d.fill + k - 1) % 256

\* data[BLOCK_SIZE * index : BLOCK_SIZE * (index + 1)]
Payload(d, idx) == [k \in 1..BLOCK_SIZE |-> DataByte(d, BLOCK_SIZE * idx + k)]

\* len(data) // BLOCK_SIZE
NumBlocks(d) == DataLen(d) \div BLOCK_SIZE

\* The bytes handed to send_xmodem128_crc_data for item idx: the serialized
\* packet of block idx, or the single EOT symbol once all blocks are sent.
ItemData(d, idx) ==
    IF idx < NumBlocks(d)
    THEN serialize(PacketNumber(idx), Payload(d, idx))
    ELSE <<EOT>>

(***************************************************************************)
(* Inputs                                                                  *)
(***************************************************************************)
MkData(len, fill) == [len |-> len, fill |-> fill]
NoData == MkData(0, 0)

Fills == {165}
ValidLens == {BLOCK_SIZE * k : k \in 0..MaxBlocks}
InvalidLens == {1, BLOCK_SIZE - 1, BLOCK_SIZE + 1}
DataSet == {MkData(len, fill) : len \in ValidLens \cup InvalidLens, fill \in Fills}

RxBytes == {ACK, NAK, CAN, HandshakeByte, 0}

\* writes kept in written: all attempts of one item and the write before them
LogWindow == MaxFailures + 2

OrigProtocol == <<"original", 0>>
ProtoOf(c) == <<"StreamReaderProtocol", c>>

VARIABLES
    protocol,           \* transport.get_protocol()
    written,            \* the last LogWindow transport writes: [call, bytes]
    nwritten,           \* per call (history): number of its transport writes
    nset,               \* per call (history): its transport.set_protocol calls
    pc,                 \* per call: idle, handshake, drain, read, done
    data,               \* per call: the data argument
    max_failures,       \* per call
    progress_callback,  \* per call: TRUE iff a callback was supplied
    old_protocol,       \* per call: the protocol captured at entry
    entry_protocol,     \* per call (history): transport protocol at the call
    buffer,             \* per call: reader._buffer
    index,              \* per call: block index; NumBlocks(data) means EOT
    attempt,            \* per call: loop variable of send_xmodem128_crc_data
    sending,            \* per call: the data argument of send_xmodem128_crc_data
    outcome,            \* per call: how the call ended
    progress,           \* per call (history): arguments of the callback calls
    consumed,           \* per call (history): response bytes read
    discarded           \* per call (history): number of buffered bytes, the
                        \* handshake byte aside, dropped when it was detected;
                        \* kept until the drain of the first write completes

xferVars == <<protocol, written, nwritten, nset, pc, data, max_failures,
              progress_callback, old_protocol, entry_protocol, buffer, index,
              attempt, sending, outcome, progress, consumed, discarded>>

VARIABLES
    ctor,               \* StateMachine.__init__: "none", "ok" or "InvalidState"
    sm_state,           \* self._state
    futures,            \* self._futures_for_state: state -> list of futures
    fut,                \* per task: its future: none, pending, done, cancelled
    must_cancel,        \* per task: Task._must_cancel
    wpc,                \* per task: idle, await, returned, cancelled, assert
    wstate,             \* per task: the state argument of wait_for_state
    set_calls,          \* (history) number of calls of the state setter
    last_set,           \* (history) [to, result] of the last setter call,
                        \* of the constructor call before the first one
    hit                 \* per task (history): a transition to wstate was
                        \* made since the task registered its future

smVars == <<ctor, sm_state, futures, fut, must_cancel, wpc, wstate, set_calls,
            last_set, hit>>

vars == <<xferVars, smVars>>

(***************************************************************************)
(* send_xmodem128_crc and send_xmodem128_crc_data                          *)
(***************************************************************************)
XferInit ==
    /\ protocol = OrigProtocol
    /\ written = <<>>
    /\ nwritten = [c \in Calls |-> 0]
    /\ nset = [c \in Calls |-> 0]
    /\ pc = [c \in Calls |-> "idle"]
    /\ data = [c \in Calls |-> NoData]
    /\ max_failures = [c \in Calls |-> 0]
    /\ progress_callback = [c \in Calls |-> FALSE]
    /\ old_protocol = [c \in Calls |-> OrigProtocol]
    /\ entry_protocol = [c \in Calls |-> OrigProtocol]
    /\ buffer = [c \in Calls |-> <<>>]
    /\ index = [c \in Calls |-> 0]
    /\ attempt = [c \in Calls |-> 0]
    /\ sending = [c \in Calls |-> <<>>]
    /\ outcome = [c \in Calls |-> "none"]
    /\ progress = [c \in Calls |-> <<>>]
    /\ consumed = [c \in Calls |-> <<>>]
    /\ discarded = [c \in Calls |-> 0]

LengthUnchecked(d) == TRUE

\* if len(data) % BLOCK_SIZE != 0: raise ValueError
LengthOk(d) == DataLen(d) % BLOCK_SIZE = 0

RestoredToOriginal(c, out) == OrigProtocol

RestoredOnSuccessOnly(c, out) ==
    IF out = "Success" THEN old_protocol[c] ELSE protocol

\* finally: transport.set_protocol(old_protocol)
ProtocolAfterFinally(c, out) == old_protocol[c]

AttemptDataStripped(d, att) == IF att = 0 THEN d ELSE SubSeq(d, 4, Len(d))

\* writer.write(data) inside the attempt loop
AttemptData(d, att) == d

ResponseCanAsNak(rsp) ==
    IF rsp = ACK THEN "ACK"
    ELSE IF rsp = NAK \/ rsp = CAN THEN "NAK"
    ELSE "other"

ResponseOtherAsNak(rsp) ==
    IF rsp = ACK THEN "ACK"
    ELSE IF rsp = CAN THEN "CAN"
    ELSE "NAK"

ResponseNakAsAck(rsp) ==
    IF rsp = ACK \/ rsp = NAK THEN "ACK"
    ELSE IF rsp = CAN THEN "CAN"
    ELSE "other"

\* the if/elif chain on rsp_byte[0]
Response(rsp) ==
    IF rsp = ACK THEN "ACK"
    ELSE IF rsp = NAK THEN "NAK"
    ELSE IF rsp = CAN THEN "CAN"
    ELSE "other"

RetryExhaustedLate(att, mf) == att > mf

\* if attempt >= max_failures: raise ValueError
RetryExhausted(att, mf) == att >= mf

\* for attempt in range(max_failures + 1)
InRange(att, mf) == att < mf + 1

ProgressArgBefore(idx) == idx * BLOCK_SIZE

\* first argument of progress_callback after block idx was accepted
ProgressArg(idx) == (idx + 1) * BLOCK_SIZE

\* position of the first handshake byte in buf, 0 if there is none
FirstC(buf) ==
    IF \E k \in 1..Len(buf) : buf[k] = HandshakeByte
    THEN CHOOSE k \in 1..Len(buf) :
            /\ buf[k] = HandshakeByte
            /\ \A j \in 1..(k - 1) : buf[j] # HandshakeByte
    ELSE 0

\* reader.readuntil(b"C") removes everything up to and including the byte
AfterReadUntil(buf) == SubSeq(buf, FirstC(buf) + 1, Len(buf))

ReadFlushing(buf) == <<>>

\* reader.readexactly(1) takes the first buffered byte and leaves the rest
AfterRead(buf) == Tail(buf)

ClearSkipped(buf) == buf

\* reader._buffer.clear()
AfterClear(buf) == <<>>

\* a supplied callback either returns or raises
CallbackRaises(c) == IF progress_callback[c] THEN BOOLEAN ELSE {FALSE}

Report(c, sent) ==
    progress' = IF progress_callback[c]
                THEN [progress EXCEPT ![c] = Append(@, <<sent, DataLen(data[c])>>)]
                ELSE progress

\* writer.write(bytes); the model keeps the last LogWindow writes
Write(c, bytes) ==
    /\ written' = LET w == Append(written, [call |-> c, bytes |-> bytes])
                  IN  IF Len(w) > LogWindow THEN Tail(w) ELSE w
    /\ nwritten' = [nwritten EXCEPT ![c] = @ + 1]

\* The try block is left with result out: the finally clause runs.
Leave(c, out) ==
    /\ protocol' = ProtocolAfterFinally(c, out)
    /\ nset' = [nset EXCEPT ![c] = @ + 1]
    /\ pc' = [pc EXCEPT ![c] = "done"]
    /\ outcome' = [outcome EXCEPT ![c] = out]
    /\ UNCHANGED <<written, nwritten, index, attempt, sending>>

BeginCarrying(c, idx) ==
    /\ index' = [index EXCEPT ![c] = idx]
    /\ sending' = [sending EXCEPT ![c] = ItemData(data[c], idx)]
    /\ Write(c, AttemptData(ItemData(data[c], idx), 0))
    /\ pc' = [pc EXCEPT ![c] = "drain"]
    /\ UNCHANGED <<protocol, nset, outcome, attempt>>

\* send_xmodem128_crc_data is entered for item idx and makes its first write.
Begin(c, idx) ==
    /\ index' = [index EXCEPT ![c] = idx]
    /\ attempt' = [attempt EXCEPT ![c] = 0]
    /\ sending' = [sending EXCEPT ![c] = ItemData(data[c], idx)]
    /\ Write(c, AttemptData(ItemData(data[c], idx), 0))
    /\ pc' = [pc EXCEPT ![c] = "drain"]
    /\ UNCHANGED <<protocol, nset, outcome>>

RetryUncounted(c) ==
    /\ Write(c, AttemptData(sending[c], attempt[c]))
    /\ pc' = [pc EXCEPT ![c] = "drain"]
    /\ UNCHANGED <<protocol, nset, outcome, index, sending, attempt>>

\* next iteration of the attempt loop
Retry(c) ==
    /\ attempt' = [attempt EXCEPT ![c] = @ + 1]
    /\ Write(c, AttemptData(sending[c], attempt[c] + 1))
    /\ pc' = [pc EXCEPT ![c] = "drain"]
    /\ UNCHANGED <<protocol, nset, outcome, index, sending>>

\* send_xmodem128_crc_data returned normally for the current item
Returned(c) ==
    IF index[c] < NumBlocks(data[c])
    THEN \E raises \in CallbackRaises(c) :
            /\ Report(c, ProgressArg(index[c]))
            /\ IF raises THEN Leave(c, "CallbackError")
                         ELSE Begin(c, index[c] + 1)
    ELSE /\ UNCHANGED progress
         /\ Leave(c, "Success")

\* send_xmodem128_crc(data, transport=..., max_failures=mf, progress_callback=..)
\* up to its first suspension
Call(c, d, mf, cb) ==
    /\ pc[c] = "idle"
    /\ data' = [data EXCEPT ![c] = d]
    /\ max_failures' = [max_failures EXCEPT ![c] = mf]
    /\ progress_callback' = [progress_callback EXCEPT ![c] = cb]
    /\ entry_protocol' = [entry_protocol EXCEPT ![c] = protocol]
    /\ IF ~LengthOk(d)
       THEN /\ pc' = [pc EXCEPT ![c] = "done"]
            /\ outcome' = [outcome EXCEPT ![c] = "InvalidInput"]
            /\ UNCHANGED <<protocol, nset, old_protocol>>
       ELSE /\ old_protocol' = [old_protocol EXCEPT ![c] = protocol]
            /\ protocol' = ProtoOf(c)
            /\ nset' = [nset EXCEPT ![c] = @ + 1]
            /\ pc' = [pc EXCEPT ![c] = "handshake"]
            /\ UNCHANGED outcome
    /\ UNCHANGED <<written, nwritten, buffer, index, attempt, sending,
                   progress, consumed, discarded>>

\* await reader.readuntil(b"C") completes; the code runs on to the drain of
\* the first write
HandshakeDone(c) ==
    /\ pc[c] = "handshake"
    /\ FirstC(buffer[c]) # 0
    /\ \E raises \in CallbackRaises(c) :
          /\ Report(c, 0)
          /\ IF raises
             THEN /\ buffer' = [buffer EXCEPT ![c] = AfterReadUntil(@)]
                  /\ Leave(c, "CallbackError")
             ELSE /\ buffer' = [buffer EXCEPT
                                     ![c] = AfterClear(AfterReadUntil(@))]
                  /\ Begin(c, 0)
    /\ discarded' = [discarded EXCEPT
                         ![c] = Len(buffer[c]) - Len(buffer'[c]) - 1]
    /\ UNCHANGED <<data, max_failures, progress_callback, old_protocol,
                   entry_protocol, consumed>>

\* await writer.drain() completes
DrainDone(c) ==
    /\ pc[c] = "drain"
    /\ pc' = [pc EXCEPT ![c] = "read"]
    /\ discarded' = [discarded EXCEPT ![c] = 0]
    /\ UNCHANGED <<protocol, written, nwritten, nset, data, max_failures,
                   progress_callback, old_protocol, entry_protocol, buffer,
                   index, attempt, sending, outcome, progress, consumed>>

\* await reader.readexactly(1) completes; the code runs on to its next
\* suspension or to the end of the call
ReadResponse(c) ==
    /\ pc[c] = "read"
    /\ buffer[c] # <<>>
    /\ buffer' = [buffer EXCEPT ![c] = AfterRead(@)]
    /\ consumed' = [consumed EXCEPT ![c] = Append(@, Head(buffer[c]))]
    /\ CASE Response(Head(buffer[c])) = "ACK" -> Returned(c)
         [] Response(Head(buffer[c])) = "NAK" ->
                IF RetryExhausted(attempt[c], max_failures[c])
                THEN UNCHANGED progress /\ Leave(c, "TooManyFailures")
                ELSE IF InRange(attempt[c] + 1, max_failures[c])
                THEN UNCHANGED progress /\ Retry(c)
                ELSE Returned(c)
         [] Response(Head(buffer[c])) = "CAN" ->
                UNCHANGED progress /\ Leave(c, "ReceiverCancelled")
         [] OTHER ->
                UNCHANGED progress /\ Leave(c, "ProtocolViolation")
    /\ UNCHANGED <<data, max_failures, progress_callback, old_protocol,
                   entry_protocol, discarded>>

\* the calling task is cancelled while suspended in one of the three awaits
Cancel(c) ==
    /\ pc[c] \in {"handshake", "drain", "read"}
    /\ Leave(c, "Cancelled")
    /\ UNCHANGED <<data, max_failures, progress_callback, old_protocol,
                   entry_protocol, buffer, progress, consumed, discarded>>

\* the receiver's byte b reaches the transport, which hands it to its current
\* protocol; the StreamReaderProtocol of call c feeds it to that call's reader
Feed(b) ==
    /\ \E c \in Calls :
          /\ protocol = ProtoOf(c)
          /\ Len(buffer[c]) < MaxBuffered
          /\ buffer' = [buffer EXCEPT ![c] = Append(@, b)]
    /\ UNCHANGED <<protocol, written, nwritten, nset, pc, data, max_failures,
                   progress_callback, old_protocol, entry_protocol, index,
                   attempt, sending, outcome, progress, consumed, discarded>>

Start(c) ==
    \E d \in DataSet, mf \in 0..MaxFailures, cb \in BOOLEAN : Call(c, d, mf, cb)

Receive == \E b \in RxBytes : Feed(b)


(***************************************************************************)
(* Properties of the sender                                                *)
(***************************************************************************)
\* the writes of call c that are kept in written, oldest first
WritesOf(c) == SelectSeq(written, LAMBDA w : w.call = c)

\* entry j of WritesOf(c) is the Position(c, j)-th write of call c
Position(c, j) == nwritten[c] - Len(WritesOf(c)) + j

Last(seq) == seq[Len(seq)]

\* length of the longest suffix of cons that consists of NAKs
NakRun(cons) ==
    Len(cons) - (CHOOSE m \in 0..Len(cons) :
                    /\ m = 0 \/ cons[m] # NAK
                    /\ \A k \in (m + 1)..Len(cons) : cons[k] = NAK)

NumAcks(cons) == Cardinality({k \in 1..Len(cons) : cons[k] = ACK})

Began(c) == pc[c] # "idle" /\ DataLen(data[c]) % BLOCK_SIZE = 0

\* C1: whenever a call with data of a multiple of 128 bytes ends, by whichever
\* exit (success, TooManyFailures, ReceiverCancelled, ProtocolViolation, an
\* exception of the progress callback, cancellation in one of the awaits), the
\* transport's protocol in the state it ends in is the one that was active
\* when the call began.
C1_ConsumerRestoredOnEveryExit ==
    [][\A c \in Calls :
          (pc[c] # "done" /\ pc'[c] = "done"
              /\ DataLen(data'[c]) % BLOCK_SIZE = 0)
              => protocol' = entry_protocol'[c]]_vars

C1_Witness ==
    /\ pc[1] = "done"
    /\ outcome[1] = "Cancelled"
    /\ nwritten[1] >= 2
    /\ nset[1] = 2
    /\ protocol = entry_protocol[1]

\* C2: a call whose data length is not a multiple of 128 ends with
\* InvalidInput having written nothing, read nothing and never called
\* set_protocol.
C2_InvalidInputBeforeAnyIO ==
    \A c \in Calls :
        (pc[c] # "idle" /\ DataLen(data[c]) % BLOCK_SIZE # 0) =>
            /\ pc[c] = "done"
            /\ outcome[c] = "InvalidInput"
            /\ nwritten[c] = 0
            /\ WritesOf(c) = <<>>
            /\ consumed[c] = <<>>
            /\ buffer[c] = <<>>
            /\ progress[c] = <<>>
            /\ nset[c] = 0
            /\ protocol # ProtoOf(c)

C2_Witness ==
    /\ outcome[1] = "InvalidInput"
    /\ DataLen(data[1]) = BLOCK_SIZE + 1
    /\ written = <<>>
    /\ protocol = OrigProtocol

\* C3: when the receiver answers max_failures + 1 consecutive writes of one
\* item (a block or EOT) with NAK, the call ends with TooManyFailures; it has
\* then written that item exactly max_failures + 1 times, has written nothing
\* after the last NAK, and the transport's protocol is the one of before the
\* call.
C3_TooManyFailures ==
    \A c \in Calls :
        Began(c) =>
            /\ NakRun(consumed[c]) > max_failures[c]
                  => outcome[c] = "TooManyFailures"
            /\ outcome[c] = "TooManyFailures" =>
                  /\ pc[c] = "done"
                  /\ NakRun(consumed[c]) = max_failures[c] + 1
                  /\ nwritten[c] = Len(consumed[c])
                  /\ Len(WritesOf(c)) >= max_failures[c] + 1
                  /\ \A j \in 1..Len(WritesOf(c)) :
                        Position(c, j) > nwritten[c] - (max_failures[c] + 1)
                            => WritesOf(c)[j].bytes
                                  = ItemData(data[c], NumAcks(consumed[c]))
                  /\ protocol = entry_protocol[c]

C3_Witness ==
    /\ outcome[1] = "TooManyFailures"
    /\ max_failures[1] >= 1
    /\ NumBlocks(data[1]) >= 1
    /\ NumAcks(consumed[1]) = NumBlocks(data[1])
    /\ nwritten[1] = NumBlocks(data[1]) + max_failures[1] + 1
    /\ Last(written).bytes = <<EOT>>

\* cons is a prefix of: mf NAKs, then only ACKs
NaksThenAcks(cons, mf) ==
    \A k \in 1..Len(cons) : cons[k] = IF k <= mf THEN NAK ELSE ACK

\* C4: with a receiver that answers the first block with exactly max_failures
\* NAKs and then ACK, and every later write with ACK, the call never fails, is
\* complete and successful once the last response is read, and every write of
\* the first block carries the bytes of its first write.
C4_RetriesThenSuccess ==
    \A c \in Calls :
        (Began(c) /\ NumBlocks(data[c]) >= 1
                  /\ NaksThenAcks(consumed[c], max_failures[c])) =>
            /\ outcome[c] \in {"none", "Success", "Cancelled", "CallbackError"}
            /\ nwritten[c] <= max_failures[c] + 1 =>
                  /\ Len(WritesOf(c)) = nwritten[c]
                  /\ \A j \in 1..Len(WritesOf(c)) :
                        /\ WritesOf(c)[j].bytes = WritesOf(c)[1].bytes
                        /\ Len(WritesOf(c)[j].bytes) = BLOCK_SIZE + 5
            /\ Len(consumed[c]) = max_failures[c] + NumBlocks(data[c]) + 1
                  => pc[c] = "done" /\ outcome[c] = "Success"
            /\ outcome[c] = "Success"
                  => /\ Len(consumed[c])
                          = max_failures[c] + NumBlocks(data[c]) + 1
                     /\ nwritten[c] = Len(consumed[c])

C4_Witness ==
    /\ outcome[1] = "Success"
    /\ max_failures[1] >= 1
    /\ NumBlocks(data[1]) >= 2
    /\ NaksThenAcks(consumed[1], max_failures[1])
    /\ nwritten[1] = max_failures[1] + NumBlocks(data[1]) + 1

CanCount(buf) == Cardinality({k \in 1..Len(buf) : buf[k] = CAN})

\* C5 as stated: whenever the sender takes a CAN that the receiver sent after
\* the call began off its stream, the call ends there with ReceiverCancelled and
\* writes nothing.
C5_AnyCanCancels ==
    [][\A c \in Calls :
          (CanCount(buffer'[c]) < CanCount(buffer[c])
              /\ outcome'[c] # "CallbackError")
              => outcome'[c] = "ReceiverCancelled" /\ written' = written]_vars

\* C5 as amended: a CAN read as the response to a write ends the call at once
\* with ReceiverCancelled (not TooManyFailures, ProtocolViolation or success),
\* nothing is written after it is read, and ReceiverCancelled has no other
\* cause.
C5_CanResponseCancels ==
    \A c \in Calls :
        /\ \A k \in 1..Len(consumed[c]) :
              consumed[c][k] = CAN =>
                  /\ k = Len(consumed[c])
                  /\ pc[c] = "done"
                  /\ outcome[c] = "ReceiverCancelled"
                  /\ nwritten[c] = Len(consumed[c])
        /\ outcome[c] = "ReceiverCancelled"
              => consumed[c] # <<>> /\ Last(consumed[c]) = CAN

C5_Witness ==
    /\ outcome[1] = "ReceiverCancelled"
    /\ Len(consumed[1]) >= 3
    /\ Last(consumed[1]) = CAN
    /\ attempt[1] < max_failures[1]
    /\ nwritten[1] = Len(consumed[1])

\* C6: a response byte other than ACK, NAK and CAN ends the call with
\* ProtocolViolation the first time one is read, whatever is left of the retry
\* budget; the item is not written again and nothing else is written.
C6_ProtocolViolation ==
    \A c \in Calls :
        \A k \in 1..Len(consumed[c]) :
            consumed[c][k] \notin {ACK, NAK, CAN} =>
                /\ k = Len(consumed[c])
                /\ pc[c] = "done"
                /\ outcome[c] = "ProtocolViolation"
                /\ nwritten[c] = Len(consumed[c])

C6_Witness ==
    /\ outcome[1] = "ProtocolViolation"
    /\ Last(consumed[1]) = HandshakeByte
    /\ attempt[1] = 0
    /\ max_failures[1] >= 1
    /\ nwritten[1] = Len(consumed[1])

AllAcks(cons) == \A k \in 1..Len(cons) : cons[k] = ACK

\* C7: with a receiver that sends the handshake byte and answers every write
\* with ACK, a call with data of n blocks never fails, and is complete and
\* successful once n + 1 responses are read; it has then made exactly n + 1
\* writes, n packets and then one EOT, and a supplied callback was called
\* exactly n + 1 times, with (0, total), (128, total), ..., (128 n, total).
C7_AllAcked ==
    \A c \in Calls :
        (Began(c) /\ AllAcks(consumed[c])) =>
            /\ outcome[c] \in {"none", "Success", "Cancelled", "CallbackError"}
            /\ nwritten[c] <= NumBlocks(data[c]) + 1
            /\ \A j \in 1..Len(WritesOf(c)) :
                  IF Position(c, j) <= NumBlocks(data[c])
                  THEN /\ Len(WritesOf(c)[j].bytes) = BLOCK_SIZE + 5
                       /\ WritesOf(c)[j].bytes[1] = SOH
                  ELSE WritesOf(c)[j].bytes = <<EOT>>
            /\ Len(consumed[c]) = NumBlocks(data[c]) + 1
                  => pc[c] = "done" /\ outcome[c] = "Success"
            /\ outcome[c] = "Success" =>
                  /\ nwritten[c] = NumBlocks(data[c]) + 1
                  /\ Len(consumed[c]) = NumBlocks(data[c]) + 1
                  /\ progress_callback[c] =>
                        progress[c] = [k \in 1..(NumBlocks(data[c]) + 1) |->
                                          <<BLOCK_SIZE * (k - 1),
                                            DataLen(data[c])>>]
                  /\ ~progress_callback[c] => progress[c] = <<>>

C7_Witness ==
    /\ outcome[1] = "Success"
    /\ progress_callback[1]
    /\ NumBlocks(data[1]) = 2
    /\ AllAcks(consumed[1])
    /\ nwritten[1] = 3
    /\ Len(progress[1]) = 3
    /\ Last(progress[1]) = <<DataLen(data[1]), DataLen(data[1])>>

\* C8: the k-th write of a call that gets only ACKs is, for k up to the number
\* of blocks, one packet of 133 bytes: SOH, the sequence byte k mod 256 (block
\* k - 1), its complement 255 - (k mod 256), the 128 bytes of the block and
\* two more bytes; each sequence byte is the one before plus 1 mod 256, and a
\* successful call has written one packet per block and then EOT.
C8_PacketNumbers ==
    \A c \in Calls :
        (Began(c) /\ AllAcks(consumed[c])) =>
            /\ \A j \in 1..Len(WritesOf(c)) :
                  Position(c, j) <= DataLen(data[c]) \div 128 =>
                      /\ Len(WritesOf(c)[j].bytes) = 133
                      /\ WritesOf(c)[j].bytes[1] = SOH
                      /\ WritesOf(c)[j].bytes[2] = Position(c, j) % 256
                      /\ WritesOf(c)[j].bytes[3] = 255 - (Position(c, j) % 256)
                      /\ \A k \in 1..128 :
                            WritesOf(c)[j].bytes[3 + k]
                                = DataByte(data[c], 128 * (Position(c, j) - 1) + k)
                      /\ j > 1 => WritesOf(c)[j].bytes[2]
                                    = (WritesOf(c)[j - 1].bytes[2] + 1) % 256
            /\ outcome[c] = "Success" =>
                  /\ nwritten[c] = (DataLen(data[c]) \div 128) + 1
                  /\ Last(WritesOf(c)).bytes = <<EOT>>

C8_Witness ==
    /\ nwritten[1] = 257
    /\ Len(written) >= 3
    /\ written[Len(written) - 2].bytes[2] = 255
    /\ written[Len(written) - 1].bytes[2] = 0
    /\ written[Len(written) - 1].bytes[3] = 255
    /\ written[Len(written)].bytes[2] = 1

\* the outcomes the retry loops and the response handling can end a call with
DefiniteOutcomes ==
    {"Success", "TooManyFailures", "ReceiverCancelled", "ProtocolViolation"}

\* C14: a call with data of n blocks never makes more than
\* (n + 1) * (max_failures + 1) writes; and with a receiver that delivers the
\* handshake byte and answers every write with one byte, a call that has begun
\* eventually ends, with success, TooManyFailures, ReceiverCancelled or
\* ProtocolViolation (or with the exception of its progress callback, when
\* that raises).
C14_BoundedRetries ==
    /\ [](\A c \in Calls :
            nwritten[c] <= (NumBlocks(data[c]) + 1) * (max_failures[c] + 1))
    /\ \A c \in Calls : Began(c) ~> (pc[c] = "done")
    /\ [](\A c \in Calls :
            (Began(c) /\ pc[c] = "done" /\ outcome[c] # "CallbackError")
                => outcome[c] \in DefiniteOutcomes)

\* every item of a call with the largest data was refused max_failures times
\* before it was accepted: the call ended with the largest number of writes
C14_Witness ==
    /\ pc[1] = "done"
    /\ outcome[1] = "Success"
    /\ max_failures[1] = MaxFailures
    /\ NumBlocks(data[1]) = MaxBlocks
    /\ nwritten[1] = (MaxBlocks + 1) * (MaxFailures + 1)

\* C15: nothing is written before the handshake byte was read; at most one
\* write is without its response; while item i is being sent exactly the i
\* items before it were answered with ACK, so block i + 1 is first written
\* only after the ACK of block i and EOT only after the ACKs of all blocks; and
\* every write of the EOT item is the single byte 0x04.
C15_StopAndWait ==
    /\ [](\A c \in Calls :
            /\ pc[c] \in {"idle", "handshake"} => nwritten[c] = 0
            /\ nwritten[c] - Len(consumed[c]) \in {0, 1}
            /\ pc[c] \in {"drain", "read"} =>
                  /\ NumAcks(consumed[c]) = index[c]
                  /\ nwritten[c] - Len(consumed[c]) = 1
                  /\ Last(WritesOf(c)).bytes = ItemData(data[c], index[c])
                  /\ index[c] = NumBlocks(data[c]) =>
                        Last(WritesOf(c)).bytes = <<4>>)
    /\ [][\A c \in Calls :
             nwritten'[c] # nwritten[c] =>
                 /\ nwritten'[c] = nwritten[c] + 1
                 /\ nwritten[c] = Len(consumed'[c])
                 /\ nwritten[c] = 0 =>
                       pc[c] = "handshake" /\ FirstC(buffer[c]) # 0
                 /\ index'[c] # index[c] =>
                       /\ index'[c] = index[c] + 1
                       /\ Last(consumed'[c]) = ACK]_vars

\* the EOT is being sent for the second time, after both blocks of the data
\* were acknowledged
C15_Witness ==
    /\ pc[1] = "read"
    /\ NumBlocks(data[1]) = 2
    /\ index[1] = 2
    /\ attempt[1] = 1
    /\ consumed[1] = <<ACK, ACK, NAK>>
    /\ Last(WritesOf(1)).bytes = <<EOT>>

\* every item so far was answered with exactly mf NAKs and then one ACK
NaksBeforeEveryAck(cons, mf) ==
    \A k \in 1..Len(cons) :
        cons[k] = IF k % (mf + 1) = 0 THEN ACK ELSE NAK

\* C16: the attempt counter counts the NAKs of the item being sent only, from 0
\* for every block and for EOT: a receiver that answers every item with
\* exactly max_failures NAKs before its ACK never makes the call fail with
\* TooManyFailures, and the call succeeds once the EOT is acknowledged.
C16_PerItemCounter ==
    \A c \in Calls :
        /\ pc[c] \in {"drain", "read"} => attempt[c] = NakRun(consumed[c])
        /\ (Began(c) /\ NaksBeforeEveryAck(consumed[c], max_failures[c])) =>
              /\ outcome[c] \in {"none", "Success", "CallbackError", "Cancelled"}
              /\ Len(consumed[c])
                    = (NumBlocks(data[c]) + 1) * (max_failures[c] + 1)
                        => outcome[c] = "Success"

\* two blocks and the EOT were each refused once and then accepted, with
\* max_failures = 1
C16_Witness ==
    /\ max_failures[1] = 1
    /\ consumed[1] = <<NAK, ACK, NAK, ACK, NAK, ACK>>
    /\ outcome[1] = "Success"

\* C17: in the step in which the handshake byte is detected and the first
\* packet is written, every byte buffered at that moment, before the first
\* 'C' and after it, is dropped and none is taken as a response; a byte is
\* taken as a response only from the buffer as it was filled after that step.
C17_HandshakeDiscard ==
    [][\A c \in Calls :
          /\ (pc[c] = "handshake" /\ nwritten'[c] = 1) =>
                /\ buffer'[c] = <<>>
                /\ consumed'[c] = <<>>
                /\ discarded'[c] = Len(buffer[c]) - 1
          /\ consumed'[c] # consumed[c] =>
                /\ pc[c] = "read"
                /\ nwritten[c] > 0
                /\ consumed'[c] = Append(consumed[c], Head(buffer[c]))
                /\ buffer'[c] = Tail(buffer[c])]_vars

\* the first packet was written and the bytes that were buffered with the
\* handshake byte were dropped
C17_Witness ==
    /\ pc[1] = "drain"
    /\ nwritten[1] = 1
    /\ discarded[1] = MaxBuffered - 1
    /\ buffer[1] = <<>>
    /\ consumed[1] = <<>>

\* call c ends in this step, having swapped the protocol at its entry
Exits(c) == pc[c] # "done" /\ pc'[c] = "done" /\ nset'[c] = 2

\* call c has ended, having swapped the protocol at its entry
Exited(c) == pc[c] = "done" /\ nset[c] = 2

\* C19: a call that ends installs the protocol it found at its own entry.  Of
\* two overlapping calls on one transport, when the one that started later
\* has ended first, the end of the other leaves the transport with its
\* original protocol; when the one that started earlier has ended first, the
\* end of the later one leaves the transport with the temporary protocol of
\* the earlier one, which is not the original.
C19_NonReentrantSwap ==
    [][\A c \in Calls :
          Exits(c) =>
              /\ protocol' = entry_protocol[c]
              /\ \A o \in Calls \ {c} :
                    Exited(o) =>
                        /\ entry_protocol[o] = ProtoOf(c) =>
                              protocol' = OrigProtocol
                        /\ entry_protocol[c] = ProtoOf(o) =>
                              protocol' = ProtoOf(o) /\ protocol' # OrigProtocol]_vars

\* both calls have ended, the earlier one (call 1) first: the transport is
\* left with the protocol of call 1
C19_Witness ==
    /\ Exited(1)
    /\ Exited(2)
    /\ entry_protocol[1] = OrigProtocol
    /\ entry_protocol[2] = ProtoOf(1)
    /\ protocol = ProtoOf(1)

\* C20: once the first write is made, the number of writes exceeds the number
\* of bytes taken as responses by 0 or 1; a byte leaves the buffer only as
\* the response to the one write that has none yet, the oldest byte first,
\* and the bytes behind it stay buffered; so a byte that is buffered when a
\* write is made is the response to that write.
C20_OneResponsePerWrite ==
    /\ [](\A c \in Calls : nwritten[c] - Len(consumed[c]) \in {0, 1})
    /\ [][\A c \in Calls :
             nwritten[c] > 0 =>
                 \/ buffer'[c] = buffer[c] /\ consumed'[c] = consumed[c]
                 \/ /\ \E b \in RxBytes : buffer'[c] = Append(buffer[c], b)
                    /\ consumed'[c] = consumed[c]
                    /\ nwritten'[c] = nwritten[c]
                 \/ /\ buffer[c] # <<>>
                    /\ buffer'[c] = Tail(buffer[c])
                    /\ consumed'[c] = Append(consumed[c], Head(buffer[c]))
                    /\ nwritten[c] = Len(consumed[c]) + 1]_vars

\* a write that is not the first has no response yet and two bytes are
\* buffered: the second one will answer the next write and is there before it
C20_Witness ==
    /\ pc[1] = "read"
    /\ Len(consumed[1]) >= 1
    /\ nwritten[1] = Len(consumed[1]) + 1
    /\ Len(buffer[1]) = 2
    /\ buffer[1][2] \in {ACK, HandshakeByte}

(***************************************************************************)
(* StateMachine                                                            *)
(***************************************************************************)
States == {"a", "b", "c"}       \* the states argument of the constructor
Names == States \cup {"x"}      \* "x" is not declared
Tasks == 1..NumTasks

NoStateMachine ==
    /\ ctor = "none"
    /\ sm_state = "none"
    /\ futures = [s \in States |-> <<>>]
    /\ fut = [t \in Tasks |-> "none"]
    /\ must_cancel = [t \in Tasks |-> FALSE]
    /\ wpc = [t \in Tasks |-> "idle"]
    /\ wstate = [t \in Tasks |-> "none"]
    /\ set_calls = 0
    /\ last_set = [to |-> "none", result |-> "none"]
    /\ hit = [t \in Tasks |-> FALSE]

InitialAny(initial) == TRUE

\* if initial not in states: raise ValueError
InitialOk(initial) == initial \in States

\* StateMachine(States, initial)
New(initial) ==
    /\ ctor = IF InitialOk(initial) THEN "ok" ELSE "InvalidState"
    /\ sm_state = IF InitialOk(initial) THEN initial ELSE "none"
    /\ futures = [s \in States |-> <<>>]
    /\ fut = [t \in Tasks |-> "none"]
    /\ must_cancel = [t \in Tasks |-> FALSE]
    /\ wpc = [t \in Tasks |-> "idle"]
    /\ wstate = [t \in Tasks |-> "none"]
    /\ set_calls = 0
    /\ last_set = [to |-> initial,
                   result |-> IF InitialOk(initial) THEN "ok" ELSE "InvalidState"]
    /\ hit = [t \in Tasks |-> FALSE]

\* if state not in self._states: raise ValueError
Declared(s) == s \in States

\* Position in list of the first future on which future.set_result(None)
\* raises InvalidStateError (a future that is not pending), 0 if there is none.
FirstNotPending(list) ==
    IF \E k \in 1..Len(list) : fut[list[k]] # "pending"
    THEN CHOOSE k \in 1..Len(list) :
            /\ fut[list[k]] # "pending"
            /\ \A j \in 1..(k - 1) : fut[list[j]] = "pending"
    ELSE 0

\* The futures the loop of the setter resolves: all of list, or those before
\* the one on which set_result raises.
Resolved(list) ==
    IF FirstNotPending(list) = 0
    THEN {list[k] : k \in 1..Len(list)}
    ELSE {list[k] : k \in 1..(FirstNotPending(list) - 1)}

\* self.state = to
SetState(to) ==
    /\ ctor = "ok"
    /\ set_calls < MaxSetCalls
    /\ set_calls' = set_calls + 1
    /\ IF ~Declared(to)
       THEN /\ last_set' = [to |-> to, result |-> "InvalidState"]
            /\ UNCHANGED <<sm_state, fut, hit>>
       ELSE /\ sm_state' = to
            /\ fut' = [t \in Tasks |->
                          IF t \in Resolved(futures[to]) THEN "done" ELSE fut[t]]
            /\ hit' = [t \in Tasks |->
                          hit[t] \/ (wpc[t] = "await" /\ wstate[t] = to)]
            /\ last_set' = [to |-> to,
                            result |-> IF FirstNotPending(futures[to]) = 0
                                       THEN "ok" ELSE "InvalidStateError"]
    /\ UNCHANGED <<ctor, futures, must_cancel, wpc, wstate>>

RemoveNothing(list, f) == list

\* list.remove(future)
Remove(list, f) == SelectSeq(list, LAMBDA e : e # f)

\* await sm.wait_for_state(s), up to its return or its suspension
WaitForState(t, s) ==
    /\ ctor = "ok"
    /\ wpc[t] \in {"idle", "returned", "cancelled", "assert"}
    /\ wstate' = [wstate EXCEPT ![t] = s]
    /\ hit' = [hit EXCEPT ![t] = FALSE]
    /\ IF ~Declared(s)
       THEN /\ wpc' = [wpc EXCEPT ![t] = "assert"]
            /\ UNCHANGED <<futures, fut>>
       ELSE IF sm_state = s
       THEN /\ wpc' = [wpc EXCEPT ![t] = "returned"]
            /\ UNCHANGED <<futures, fut>>
       ELSE /\ fut' = [fut EXCEPT ![t] = "pending"]
            /\ futures' = [futures EXCEPT ![s] = Append(@, t)]
            /\ wpc' = [wpc EXCEPT ![t] = "await"]
    /\ UNCHANGED <<ctor, sm_state, must_cancel, set_calls, last_set>>

\* task.cancel() on a task suspended in wait_for_state
CancelTask(t) ==
    /\ wpc[t] = "await"
    /\ fut[t] # "cancelled"
    /\ ~must_cancel[t]
    /\ IF fut[t] = "pending"
       THEN fut' = [fut EXCEPT ![t] = "cancelled"] /\ UNCHANGED must_cancel
       ELSE must_cancel' = [must_cancel EXCEPT ![t] = TRUE] /\ UNCHANGED fut
    /\ UNCHANGED <<ctor, sm_state, futures, wpc, wstate, set_calls, last_set,
                   hit>>

ResumeRechecking(t) ==
    /\ wpc[t] = "await"
    /\ fut[t] # "pending"
    /\ IF fut[t] = "done" /\ ~must_cancel[t] /\ sm_state # wstate[t]
       THEN /\ fut' = [fut EXCEPT ![t] = "pending"]
            /\ UNCHANGED <<futures, wpc, must_cancel>>
       ELSE /\ futures' = [futures EXCEPT ![wstate[t]] = Remove(@, t)]
            /\ wpc' = [wpc EXCEPT ![t] =
                          IF fut[t] = "cancelled" \/ must_cancel[t]
                          THEN "cancelled" ELSE "returned"]
            /\ fut' = [fut EXCEPT ![t] = "none"]
            /\ must_cancel' = [must_cancel EXCEPT ![t] = FALSE]
    /\ UNCHANGED <<ctor, sm_state, wstate, set_calls, last_set, hit>>

\* The event loop resumes a task whose future is no longer pending: the
\* await either returns or raises CancelledError, and the finally clause runs.
Resume(t) ==
    /\ wpc[t] = "await"
    /\ fut[t] # "pending"
    /\ futures' = [futures EXCEPT ![wstate[t]] = Remove(@, t)]
    /\ wpc' = [wpc EXCEPT ![t] =
                  IF fut[t] = "cancelled" \/ must_cancel[t]
                  THEN "cancelled" ELSE "returned"]
    /\ fut' = [fut EXCEPT ![t] = "none"]
    /\ must_cancel' = [must_cancel EXCEPT ![t] = FALSE]
    /\ UNCHANGED <<ctor, sm_state, wstate, set_calls, last_set, hit>>

Transition == UNCHANGED xferVars /\ \E to \in Names : SetState(to)
Wait == UNCHANGED xferVars /\ \E t \in Tasks, s \in Names : WaitForState(t, s)
CancelWaiter == UNCHANGED xferVars /\ \E t \in Tasks : CancelTask(t)
Wake == UNCHANGED xferVars /\ \E t \in Tasks : Resume(t)

(***************************************************************************)
(* Properties of the StateMachine                                          *)
(***************************************************************************)
\* the tasks whose future is in the list of state s
Registered(s) == {futures[s][k] : k \in 1..Len(futures[s])}

\* the step is a call of the setter with a declared state to
IsTransitionTo(to) ==
    /\ set_calls' = set_calls + 1
    /\ last_set'.to = to
    /\ to \in {"a", "b", "c"}

\* C9: a call of the setter with a declared state to makes to the active
\* state and resolves the future of every task that is waiting in the list of
\* to, and leaves the futures in the lists of the other states as they were,
\* in every interleaving with wait_for_state calls and cancellations.
C9_TransitionWakesAll ==
    [][\A to \in {"a", "b", "c"} :
          IsTransitionTo(to) =>
              /\ sm_state' = to
              /\ \A t \in Registered(to) :
                    fut[t] = "pending" => fut'[t] = "done"
              /\ \A s \in {"a", "b", "c"} \ {to} :
                    \A t \in Registered(s) : fut'[t] = fut[t]]_vars

\* C10, first part: wait_for_state(s) with s the active state returns without
\* suspending and registers no waiter.
C10_ActiveReturnsAtOnce ==
    [][\A t \in Tasks : \A s \in {"a", "b", "c"} :
          (WaitForState(t, s) /\ sm_state = s)
              => wpc'[t] = "returned" /\ futures' = futures /\ fut' = fut]_vars

\* C10, second part: wait_for_state(s) with s not the active state suspends,
\* and stays suspended as long as the setter has not been called with s.
C10_SuspendedUntilTransition ==
    /\ [][\A t \in Tasks : \A s \in {"a", "b", "c"} :
             (WaitForState(t, s) /\ sm_state # s)
                 => wpc'[t] = "await" /\ ~hit'[t]]_vars
    /\ [][\A t \in Tasks :
             (wpc[t] = "await" /\ wpc'[t] = "returned") => hit[t]]_vars

\* C10, third part: once the setter has been called with s, a task suspended
\* in wait_for_state(s) eventually leaves it.
C10_EventuallyResolves ==
    \A t \in Tasks : (wpc[t] = "await" /\ hit[t]) ~> (wpc[t] # "await")

\* C10: wait_for_state(s) with s active returns at once and registers nothing;
\* wait_for_state(s) with another state active stays suspended as long as no
\* transition to s has occurred; and after a transition to s it eventually
\* resolves.
C10_WaitForState ==
    /\ C10_ActiveReturnsAtOnce
    /\ C10_SuspendedUntilTransition
    /\ C10_EventuallyResolves

\* C11: the constructor called with an initial state outside the declared set
\* fails with InvalidState and yields no object; a call of the setter with an
\* undeclared state fails with InvalidState and leaves the active state, every
\* future and every list as they were.
C11_InvalidState ==
    /\ [](/\ set_calls = 0 =>
                (ctor = "InvalidState" <=> last_set.to \notin {"a", "b", "c"})
          /\ ctor = "InvalidState" =>
                (last_set.result = "InvalidState" /\ sm_state = "none"
                    /\ set_calls = 0)
          /\ ctor = "ok" => sm_state \in {"a", "b", "c"})
    /\ [][(set_calls' = set_calls + 1 /\ last_set'.to \notin {"a", "b", "c"})
             => /\ last_set'.result = "InvalidState"
                /\ sm_state' = sm_state
                /\ fut' = fut
                /\ futures' = futures
                /\ wpc' = wpc]_vars

\* the setter was called with an undeclared state and failed while a waiter
\* was registered and pending
C11_Witness ==
    /\ set_calls > 0
    /\ last_set = [to |-> "x", result |-> "InvalidState"]
    /\ \E t \in Tasks : fut[t] = "pending" /\ t \in Registered(wstate[t])

\* C12: once a wait_for_state call has exited, by a normal return or by the
\* cancellation of its task, its future is in no list (at the moment the
\* caller sees the return or the CancelledError it is already removed); hence
\* when no wait_for_state call is in progress every list is empty.
C12_NoWaiterLeak ==
    /\ \A t \in Tasks :
          wpc[t] # "await" =>
              /\ fut[t] = "none"
              /\ \A s \in {"a", "b", "c"} : t \notin Registered(s)
    /\ (\A t \in Tasks : wpc[t] # "await") =>
          \A s \in {"a", "b", "c"} : futures[s] = <<>>

\* one call has returned after being woken and another has ended by
\* cancellation
C12_Witness ==
    /\ \E t \in Tasks : wpc[t] = "returned" /\ hit[t]
    /\ \E t \in Tasks : wpc[t] = "cancelled"
    /\ \A s \in {"a", "b", "c"} : futures[s] = <<>>

\* C13: when the setter is called with a declared state, every future in the
\* list of that state is still pending, so the call resolves each of them
\* once and does not fail; in every interleaving of setter calls with
\* wait_for_state calls, cancellations and resumptions of the waiting tasks.
C13_NoDoubleResolution ==
    [][\A to \in {"a", "b", "c"} :
          IsTransitionTo(to) =>
              /\ \A t \in Registered(to) : fut[t] = "pending"
              /\ last_set'.result = "ok"]_vars

\* C18: wait_for_state(s) returns normally only if s was the active state
\* when it was called or the setter was called with s after the future was
\* registered; and a task whose future was resolved returns normally when it
\* is resumed, whatever the active state is by then.
C18_LatchedWakeUp ==
    [][\A t \in Tasks :
          /\ (wpc[t] # "await" /\ wpc'[t] = "returned"
                 /\ <<wpc[t], wstate[t], hit[t]>>
                        # <<wpc'[t], wstate'[t], hit'[t]>>) =>
                sm_state = wstate'[t]
          /\ (wpc[t] = "await" /\ wpc'[t] = "returned") =>
                hit[t] /\ fut[t] = "done"
          /\ (wpc[t] = "await" /\ fut[t] = "done" /\ ~must_cancel[t]
                 /\ fut'[t] # fut[t]) =>
                wpc'[t] = "returned" /\ sm_state' = sm_state]_vars

\* a task was woken by a transition to the state it waits for, the active
\* state has changed again since, and the task has not resumed yet
C18_Witness ==
    \E t \in Tasks :
        /\ wpc[t] = "await"
        /\ fut[t] = "done"
        /\ ~must_cancel[t]
        /\ hit[t]
        /\ sm_state # wstate[t]
        /\ last_set = [to |-> sm_state, result |-> "ok"]

(***************************************************************************)
(* Specifications                                                          *)
(***************************************************************************)
\* A receiver that sends the handshake byte when the sender waits for it and
\* one ACK for every write.
AckReceiver ==
    \E c \in Calls :
        /\ buffer[c] = <<>>
        /\ Len(consumed[c]) < nwritten[c]
           \/ pc[c] = "handshake"
        /\ Feed(IF pc[c] = "handshake" THEN HandshakeByte ELSE ACK)

\* A receiver that sends the handshake byte when the sender waits for it and
\* one byte, of any value, for every write.
Responder ==
    \E c \in Calls :
        /\ buffer[c] = <<>>
        /\ \/ pc[c] = "handshake" /\ Feed(HandshakeByte)
           \/ /\ pc[c] \in {"drain", "read"}
              /\ Len(consumed[c]) < nwritten[c]
              /\ \E b \in RxBytes : Feed(b)

Init == XferInit /\ NoStateMachine

Next ==
    \/ Start(1) /\ UNCHANGED smVars
    \/ HandshakeDone(1) /\ UNCHANGED smVars
    \/ DrainDone(1) /\ UNCHANGED smVars
    \/ ReadResponse(1) /\ UNCHANGED smVars
    \/ Cancel(1) /\ UNCHANGED smVars
    \/ Receive /\ UNCHANGED smVars

Spec == Init /\ [][Next]_vars

\* A transfer of LongBlocks blocks to a receiver that acknowledges every write.
LongStart ==
    \E fill \in Fills, cb \in BOOLEAN :
        Call(1, MkData(BLOCK_SIZE * LongBlocks, fill), 0, cb)

LongNext ==
    \/ LongStart /\ UNCHANGED smVars
    \/ HandshakeDone(1) /\ UNCHANGED smVars
    \/ DrainDone(1) /\ UNCHANGED smVars
    \/ ReadResponse(1) /\ UNCHANGED smVars
    \/ AckReceiver /\ UNCHANGED smVars

SpecLong == Init /\ [][LongNext]_vars

\* One call, never cancelled, with the responding receiver; the event loop
\* runs the call whenever it can go on, and the receiver does answer.
FairNext ==
    \/ Start(1) /\ UNCHANGED smVars
    \/ HandshakeDone(1) /\ UNCHANGED smVars
    \/ DrainDone(1) /\ UNCHANGED smVars
    \/ ReadResponse(1) /\ UNCHANGED smVars
    \/ Responder /\ UNCHANGED smVars

SpecFair ==
    /\ Init
    /\ [][FairNext]_vars
    /\ WF_vars(HandshakeDone(1) /\ UNCHANGED smVars)
    /\ WF_vars(DrainDone(1) /\ UNCHANGED smVars)
    /\ WF_vars(ReadResponse(1) /\ UNCHANGED smVars)
    /\ WF_vars(Responder /\ UNCHANGED smVars)

\* Two calls on one transport, each with no data or one block and without a
\* callback.
TwoStart ==
    \E c \in Calls, len \in {0, BLOCK_SIZE}, fill \in Fills :
        Call(c, MkData(len, fill), 0, FALSE)

\* the receiver sends a byte when the reader that gets it has nothing buffered
TwoReceive ==
    \E b \in {HandshakeByte, ACK, NAK} :
        /\ \E c \in Calls : protocol = ProtoOf(c) /\ buffer[c] = <<>>
        /\ Feed(b)

TwoNext ==
    \/ TwoStart /\ UNCHANGED smVars
    \/ \E c \in Calls : HandshakeDone(c) /\ UNCHANGED smVars
    \/ \E c \in Calls : DrainDone(c) /\ UNCHANGED smVars
    \/ \E c \in Calls : ReadResponse(c) /\ UNCHANGED smVars
    \/ \E c \in Calls : Cancel(c) /\ UNCHANGED smVars
    \/ TwoReceive /\ UNCHANGED smVars

SpecTwo == Init /\ [][TwoNext]_vars

SMInit == XferInit /\ \E initial \in Names : New(initial)

SMNext ==
    \/ Transition
    \/ Wait
    \/ CancelWaiter
    \/ Wake

SpecSM == SMInit /\ [][SMNext]_vars

\* the event loop runs every task that is ready
SpecSMFair ==
    SpecSM /\ \A t \in Tasks : WF_vars(Resume(t) /\ UNCHANGED xferVars)

====
